---------------------------- MODULE Spec2Model ----------------------------
(***************************************************************************)
(* A model of the regulation_task pipeline: comparison.py (clause          *)
(* segmentation, relevance scoring, folder / single-document processing)   *)
(* and inference.py (prompt, report generation, report store, the two      *)
(* orchestrators).                                                         *)
(*                                                                         *)
(* Text is a sequence of tokens.  A token is one character ("a", "b") or a *)
(* named character ("SP" space, "LF" line feed, "CR" carriage return,      *)
(* "e'" a non-ASCII letter), or, in file names and fixed messages, a chunk *)
(* of characters that the code never looks inside ("_extracted").          *)
(* Similarity scores are in thousandths (0.4 is 400).                      *)
(***************************************************************************)
EXTENDS Integers, Sequences, FiniteSets, TLC

VARIABLES
    arg,      \* the arguments of the call under way (a record)
    ret,      \* what the call returned, or NotYet
    pc,       \* position of the running entry point
    fs,       \* the file system: artifact path -> bytes on disk
    dirs,     \* the directories that exist
    now,      \* the wall clock, in seconds
    linesep,  \* os.linesep of the platform
    saves,    \* number of save_report calls made so far
    client,   \* whether the name `client` is bound in module inference
    run       \* the locals of the running orchestrator (a record)

vars == <<arg, ret, pc, fs, dirs, now, linesep, saves, client, run>>

NotYet == [kind |-> "notyet"]

(***************************************************************************)
(* Bounds of the model.                                                    *)
(***************************************************************************)
MaxTextLen == 5
MaxClauses == 3

(***************************************************************************)
(* Generic helpers on sequences.                                           *)
(***************************************************************************)
SeqsUpTo(S, n) == UNION {[1..k -> S] : k \in 0..n}

Last(s) == s[Len(s)]

(***************************************************************************)
(* str.strip(): leading and trailing whitespace removed.                   *)
(***************************************************************************)
Whitespace == {"SP", "LF", "CR"}

RECURSIVE LStrip(_)
LStrip(s) == IF s # <<>> /\ Head(s) \in Whitespace THEN LStrip(Tail(s)) ELSE s

RECURSIVE RStrip(_)
RStrip(s) ==
    IF s # <<>> /\ Last(s) \in Whitespace
    THEN RStrip(SubSeq(s, 1, Len(s) - 1))
    ELSE s

Strip(s) == RStrip(LStrip(s))

(***************************************************************************)
(* str.split("\n\n"): the pieces between the non-overlapping occurrences   *)
(* of the delimiter, found left to right.                                  *)
(***************************************************************************)
DelimAt(s, i) == i + 1 <= Len(s) /\ s[i] = "LF" /\ s[i + 1] = "LF"

FirstDelim(s) ==
    IF \E i \in 1..Len(s) : DelimAt(s, i)
    THEN CHOOSE i \in 1..Len(s) :
            DelimAt(s, i) /\ \A j \in 1..(i - 1) : ~DelimAt(s, j)
    ELSE 0

RECURSIVE SplitBlankLine(_)
SplitBlankLine(s) ==
    LET i == FirstDelim(s)
    IN  IF i = 0
        THEN <<s>>
        ELSE <<SubSeq(s, 1, i - 1)>> \o SplitBlankLine(SubSeq(s, i + 2, Len(s)))

(***************************************************************************)
(* comparison.extract_clauses                                              *)
(***************************************************************************)
KeepEvery(clause) == TRUE

KeepNonEmpty(clause) == Strip(clause) # <<>>

extract_clauses(text) ==
    LET kept == SelectSeq(SplitBlankLine(text), KeepNonEmpty)
    IN  [k \in 1..Len(kept) |-> Strip(kept[k])]

(***************************************************************************)
(* comparison.find_relevant_clauses.  cosine_scores is what                *)
(* calculate_similarity returned for the clauses: one tensor scalar per    *)
(* clause; float(score) takes the number out of the tensor scalar.         *)
(***************************************************************************)
Threshold == 400

Tensor(v) == [tensor |-> v]
FloatOf(score) == score.tensor

RetainedStrict(score, threshold) == score.tensor > threshold

Retained(score, threshold) == score.tensor >= threshold

RECURSIVE ZipFilter(_, _, _)
ZipFilter(clauses, cosine_scores, threshold) ==
    IF clauses = <<>> \/ cosine_scores = <<>>
    THEN <<>>
    ELSE (IF Retained(Head(cosine_scores), threshold)
          THEN << <<Head(clauses), FloatOf(Head(cosine_scores))>> >>
          ELSE <<>>)
         \o ZipFilter(Tail(clauses), Tail(cosine_scores), threshold)

find_relevant_clauses(clauses, cosine_scores, threshold) ==
    ZipFilter(clauses, cosine_scores, threshold)

(***************************************************************************)
(* Specification SpecSeg: extract_clauses applied to every text over       *)
(* {a, space, line feed} of at most MaxTextLen characters.                 *)
(***************************************************************************)
SegAlphabet == {"a", "SP", "LF"}
SegTexts == SeqsUpTo(SegAlphabet, MaxTextLen)

\* The locals of an orchestrator run over n documents, before its first
\* step.  stage, gen and the counters are kept for the properties only:
\* stage[k] is the last pipeline stage document k went through, gen[j] how
\* the j-th report was generated, and the counters count the calls made.
RunInit(n) ==
    [i |-> 1, text |-> <<>>, clauses |-> <<>>,
     relevant |-> [none |-> TRUE, list |-> <<>>],
     results |-> <<>>, j |-> 1, prompt |-> <<>>, report |-> <<>>,
     paths |-> <<>>, stage |-> [k \in 1..n |-> "none"], gen |-> <<>>,
     composeCalls |-> 0, genCalls |-> 0, llmRequests |-> 0]

Idle ==
    /\ fs = << >>
    /\ dirs = {}
    /\ now = 0
    /\ linesep = <<"LF">>
    /\ saves = 0
    /\ client = FALSE
    /\ run = RunInit(0)

InitSeg ==
    /\ \E t \in SegTexts : arg = [fn |-> "extract_clauses", text |-> t]
    /\ ret = NotYet
    /\ pc = "call"
    /\ Idle

Segment ==
    /\ pc = "call"
    /\ arg.fn = "extract_clauses"
    /\ ret' = [kind |-> "value", value |-> extract_clauses(arg.text)]
    /\ pc' = "returned"
    /\ UNCHANGED <<arg, fs, dirs, now, linesep, saves, client, run>>

NextSeg == Segment

SpecSeg == InitSeg /\ [][NextSeg]_vars

(***************************************************************************)
(* What the segmenter is to return, stated on the positions of the text:   *)
(* the characters that are not whitespace are grouped into clauses; two    *)
(* neighbouring ones lie in the same clause unless the whitespace between  *)
(* them holds two consecutive line feeds; a clause runs from the first to  *)
(* the last character of its group.                                        *)
(***************************************************************************)
SetMax(S) == CHOOSE x \in S : \A y \in S : y <= x
SetMin(S) == CHOOSE x \in S : \A y \in S : x <= y

NonWsPos(t) == {p \in 1..Len(t) : t[p] \notin Whitespace}

BlankLineIn(t, lo, hi) == \E i \in lo..(hi - 1) : t[i] = "LF" /\ t[i + 1] = "LF"

ClauseStarts(t) ==
    {p \in NonWsPos(t) :
        LET before == {q \in NonWsPos(t) : q < p}
        IN  before = {} \/ BlankLineIn(t, SetMax(before) + 1, p - 1)}

ClauseEnd(t, s) ==
    SetMax({p \in NonWsPos(t) :
                p >= s /\ \A s2 \in ClauseStarts(t) : s2 > s => p < s2})

ExpectedClauses(t) ==
    LET starts == ClauseStarts(t)
        nth(k) == CHOOSE s \in starts : Cardinality({x \in starts : x <= s}) = k
    IN  [k \in 1..Cardinality(starts) |-> SubSeq(t, nth(k), ClauseEnd(t, nth(k)))]

SegReturned == pc = "returned" /\ arg.fn = "extract_clauses"

\* The text without its leading and trailing whitespace.
TrimmedText(t) ==
    IF NonWsPos(t) = {} THEN <<>>
    ELSE SubSeq(t, SetMin(NonWsPos(t)), SetMax(NonWsPos(t)))

SegmentsAsSpecified ==
    LET t == arg.text
        out == ret.value
    IN  /\ out = ExpectedClauses(t)
        /\ \A k \in 1..Len(out) :
              /\ out[k] # <<>>
              /\ out[k][1] \notin Whitespace
              /\ out[k][Len(out[k])] \notin Whitespace
        /\ NonWsPos(t) = {} => out = <<>>

\* C5 (as amended): extract_clauses returns, in source order, the trimmed
\* pieces between blank-line delimiters, omitting the pieces that are empty
\* after trimming; every clause is non-empty; a text with no blank-line
\* delimiter and at least one non-whitespace character yields exactly one
\* clause, the trimmed text; an empty or whitespace-only text yields the
\* empty sequence.
C5_Segmenter ==
    SegReturned =>
        /\ SegmentsAsSpecified
        /\ (~BlankLineIn(arg.text, 1, Len(arg.text)) /\ NonWsPos(arg.text) # {})
              => ret.value = <<TrimmedText(arg.text)>>

\* C5 witness: a text with three line feeds in a row between two clauses has
\* been segmented into two clauses.
C5_Witness ==
    /\ SegReturned
    /\ Len(ret.value) = 2
    /\ \E i \in 1..Len(arg.text) - 2 :
          arg.text[i] = "LF" /\ arg.text[i + 1] = "LF" /\ arg.text[i + 2] = "LF"

\* C5 (as stated): ... every text with no blank-line delimiter yields
\* exactly one clause equal to the trimmed text, and an empty or
\* whitespace-only text yields the empty sequence.
C5_Original ==
    SegReturned =>
        /\ SegmentsAsSpecified
        /\ ~BlankLineIn(arg.text, 1, Len(arg.text))
              => ret.value = <<TrimmedText(arg.text)>>

(***************************************************************************)
(* Specification SpecScore: find_relevant_clauses applied to every clause  *)
(* sequence of at most MaxClauses clauses, every score assignment and a    *)
(* threshold at, above and below the scores.                               *)
(***************************************************************************)
ScoreValues == {399, 400, 401}
ScoreThresholds == {Threshold, 1100, -1100}
ClauseTexts == {<<"a">>, <<"b">>}

InitScore ==
    /\ \E n \in 0..MaxClauses :
        \E cs \in [1..n -> ClauseTexts], sc \in [1..n -> ScoreValues],
           th \in ScoreThresholds :
            arg = [fn |-> "find_relevant_clauses", clauses |-> cs,
                   cosine_scores |-> [i \in 1..n |-> Tensor(sc[i])],
                   threshold |-> th]
    /\ ret = NotYet
    /\ pc = "call"
    /\ Idle

Score ==
    /\ pc = "call"
    /\ arg.fn = "find_relevant_clauses"
    /\ ret' = [kind |-> "value",
               value |-> find_relevant_clauses(arg.clauses, arg.cosine_scores,
                                               arg.threshold)]
    /\ pc' = "returned"
    /\ UNCHANGED <<arg, fs, dirs, now, linesep, saves, client, run>>

NextScore == Score

SpecScore == InitScore /\ [][NextScore]_vars

(***************************************************************************)
(* What the scorer is to return, stated on indices: the clauses whose      *)
(* score reaches the threshold, each with its own score, the k-th output   *)
(* being the k-th such clause of the input.                                *)
(***************************************************************************)
ScoreReturned == pc = "returned" /\ arg.fn = "find_relevant_clauses"

PassingIdx(scores, th) == {i \in 1..Len(scores) : scores[i].tensor >= th}

RECURSIVE WriteNewlines(_, _)
WriteNewlines(text, sep) ==
    IF text = <<>> THEN <<>>
    ELSE (IF Head(text) = "LF" THEN sep ELSE <<Head(text)>>)
         \o WriteNewlines(Tail(text), sep)

RECURSIVE ReadNewlines(_)
ReadNewlines(text) ==
    IF text = <<>> THEN <<>>
    ELSE IF Head(text) = "CR"
         THEN <<"LF">> \o ReadNewlines(IF Len(text) >= 2 /\ text[2] = "LF"
                                       THEN Tail(Tail(text))
                                       ELSE Tail(text))
         ELSE <<Head(text)>> \o ReadNewlines(Tail(text))

\* "e'" is the one two-byte character of the model; xFF is a byte that no
\* UTF-8 text contains.
RECURSIVE Utf8Encode(_)
Utf8Encode(text) ==
    IF text = <<>> THEN <<>>
    ELSE (IF Head(text) = "e'" THEN <<"xC3", "xA9">> ELSE <<Head(text)>>)
         \o Utf8Encode(Tail(text))

RECURSIVE Utf8Valid(_)
Utf8Valid(bytes) ==
    IF bytes = <<>> THEN TRUE
    ELSE IF Head(bytes) = "xC3"
         THEN Len(bytes) >= 2 /\ bytes[2] = "xA9" /\ Utf8Valid(Tail(Tail(bytes)))
         ELSE Head(bytes) \notin {"xA9", "xFF"} /\ Utf8Valid(Tail(bytes))

RECURSIVE Utf8Decode(_)
Utf8Decode(bytes) ==
    IF bytes = <<>> THEN <<>>
    ELSE IF Head(bytes) = "xC3"
         THEN <<"e'">> \o Utf8Decode(Tail(Tail(bytes)))
         ELSE <<Head(bytes)>> \o Utf8Decode(Tail(bytes))

\* comparison.load_text on the bytes of a file (which must be valid UTF-8).
load_text(bytes) == ReadNewlines(Utf8Decode(bytes))

\* f.write(report) of save_report: the bytes that reach the disk.
WrittenBytes(report, sep) == Utf8Encode(WriteNewlines(report, sep))

(***************************************************************************)
(* os.path.basename, os.path.splitext, os.path.join on token sequences     *)
(* ("/" and "." are tokens of their own).                                  *)
(***************************************************************************)
LastIndexOf(p, c) ==
    IF \E i \in 1..Len(p) : p[i] = c
    THEN SetMax({i \in 1..Len(p) : p[i] = c})
    ELSE 0

basename(p) == SubSeq(p, LastIndexOf(p, "/") + 1, Len(p))

splitext_none(p) == p

\* splitext(p)[0]: the extension starts at the last dot after the last
\* separator, unless only dots precede it in the file name.
splitext_root(p) ==
    LET sepIndex == LastIndexOf(p, "/")
        dotIndex == LastIndexOf(p, ".")
    IN  IF dotIndex > sepIndex
           /\ \E k \in (sepIndex + 1)..(dotIndex - 1) : p[k] # "."
        THEN SubSeq(p, 1, dotIndex - 1)
        ELSE p

join(dir, name) ==
    IF dir = <<>> THEN name
    ELSE IF Last(dir) = "/" THEN dir \o name
    ELSE dir \o <<"/">> \o name

(***************************************************************************)
(* datetime.now().strftime("%Y%m%d_%H%M%S") for a clock reading t, in      *)
(* seconds after midnight of the day the run takes place.                  *)
(***************************************************************************)
Digits == <<"0", "1", "2", "3", "4", "5", "6", "7", "8", "9">>
TwoDigits(n) == <<Digits[(n \div 10) + 1], Digits[(n % 10) + 1]>>
Today == <<"2024", "01", "01">>

strftime_minutes(t) ==
    Today \o <<"_">> \o TwoDigits((t \div 3600) % 24) \o TwoDigits((t \div 60) % 60)
          \o <<"0", "0">>

strftime(t) ==
    Today \o <<"_">> \o TwoDigits((t \div 3600) % 24) \o TwoDigits((t \div 60) % 60)
          \o TwoDigits(t % 60)

(***************************************************************************)
(* os.makedirs(output_dir, exist_ok): the directories afterwards, or a     *)
(* FileExistsError when the directory exists and exist_ok is false.        *)
(***************************************************************************)
DirOf(output_dir) ==
    IF output_dir # <<>> /\ Last(output_dir) = "/"
    THEN SubSeq(output_dir, 1, Len(output_dir) - 1)
    ELSE output_dir

ExistNotOk == FALSE

ExistOk == TRUE

makedirs(ds, output_dir, exist_ok) ==
    IF DirOf(output_dir) \in ds /\ ~exist_ok
    THEN [raised |-> TRUE, dirs |-> ds]
    ELSE [raised |-> FALSE, dirs |-> ds \cup {DirOf(output_dir)}]

(***************************************************************************)
(* inference.save_report, as a function of the clock reading t, the        *)
(* directories ds, the files files and the platform's line separator: the  *)
(* path returned (or the exception) and the file system afterwards.  Each  *)
(* file keeps, beside its bytes, the call that wrote it last (by), which   *)
(* the code does not have and only the properties read.                    *)
(***************************************************************************)
ReportPrefix == <<"compliance_report_">>
ReportSuffix == <<".", "txt">>
DefaultOutputDir == <<"reports">>

ReportFileName(reg_name, t) ==
    ReportPrefix \o splitext_root(basename(reg_name)) \o <<"_">> \o strftime(t)
                 \o ReportSuffix

save_report(report, reg_name, output_dir, t, ds, files, sep) ==
    LET made == makedirs(ds, output_dir, ExistOk)
        filepath == join(output_dir, ReportFileName(reg_name, t))
        file == [bytes |-> WrittenBytes(report, sep),
                 by |-> [reg_name |-> reg_name, second |-> t,
                         output_dir |-> output_dir]]
    IN  IF made.raised
        THEN [raised |-> TRUE, path |-> <<>>, dirs |-> ds, fs |-> files]
        ELSE [raised |-> FALSE, path |-> filepath, dirs |-> made.dirs,
              fs |-> [q \in DOMAIN files \cup {filepath} |->
                         IF q = filepath THEN file ELSE files[q]]]

(***************************************************************************)
(* Specification SpecSave: up to MaxSaves calls of save_report, each with  *)
(* any report, regulation name and output directory of the sets below,     *)
(* while the clock runs from 0 to MaxClock seconds; the output directory   *)
(* may or may not exist at the start, on either kind of platform.          *)
(***************************************************************************)
MaxSaves == 2
MaxClock == 1

SaveReports == {<<>>, <<"x", "LF", "e'">>, <<"x", "CR", "LF", "y">>}
SaveRegNames ==
    { <<"Reg A", ".", "txt">>,
      <<"d", "/", "Reg A", ".", "pdf">>,
      <<"a", ".", "b", ".", "txt">>,
      <<".", "hidden">> }
SaveOutputDirs == {DefaultOutputDir, <<"out", "/">>}
LineSeps == {<<"LF">>, <<"CR", "LF">>}

InitSave ==
    /\ arg = [fn |-> "none"]
    /\ ret = NotYet
    /\ pc = "idle"
    /\ fs = << >>
    /\ dirs \in {{}, {DefaultOutputDir}}
    /\ now = 0
    /\ linesep \in LineSeps
    /\ saves = 0
    /\ client = FALSE
    /\ run = RunInit(0)

\* A second passes.  The clock is read by save_report only, so the model
\* lets time pass where a save_report call is about to be made.
Tick ==
    /\ now < MaxClock
    /\ pc \in {"idle", "store"}
    /\ now' = now + 1
    /\ UNCHANGED <<arg, ret, pc, fs, dirs, linesep, saves, client, run>>

Save ==
    /\ saves < MaxSaves
    /\ \E report \in SaveReports, reg_name \in SaveRegNames,
          output_dir \in SaveOutputDirs :
         LET r == save_report(report, reg_name, output_dir, now, dirs, fs, linesep)
         IN  /\ arg' = [fn |-> "save_report", report |-> report,
                        reg_name |-> reg_name, output_dir |-> output_dir,
                        second |-> now]
             /\ ret' = IF r.raised THEN [kind |-> "raised", exc |-> "FileExistsError"]
                                   ELSE [kind |-> "value", value |-> r.path]
             /\ fs' = r.fs
             /\ dirs' = r.dirs
    /\ saves' = saves + 1
    /\ UNCHANGED <<pc, now, linesep, client, run>>

NextSave == Tick \/ Save

SpecSave == InitSave /\ [][NextSave]_vars

(***************************************************************************)
(* The store's contract, stated without the code's helpers.                *)
(***************************************************************************)
SaveReturned == arg.fn = "save_report"

Contains(seq, c) == \E i \in 1..Len(seq) : seq[i] = c

\* base is name with its directory prefix and its extension stripped: name
\* is prefix \o base \o ext, the prefix empty or ending with the separator,
\* no separator after it, and ext the file name's extension: empty, or a dot
\* and what follows the file name's last dot, the base then holding more than
\* dots.
IsBaseNameOf(base, name) ==
    \E i \in 0..Len(name) : \E j \in i..Len(name) :
        LET ext == SubSeq(name, j + 1, Len(name))
        IN  /\ base = SubSeq(name, i + 1, j)
            /\ i = 0 \/ name[i] = "/"
            /\ ~Contains(base \o ext, "/")
            /\ ext = <<>> \/ (ext[1] = "." /\ ~Contains(Tail(ext), "."))
            /\ ext # <<>> => \E k \in 1..Len(base) : base[k] # "."
            /\ ext = <<>> =>
                  \A k \in 1..Len(base) :
                      base[k] = "." => \A m \in 1..k : base[m] = "."

Pieces(name) == {SubSeq(name, i, j) : i \in 1..Len(name) + 1, j \in 0..Len(name)}

SameBaseName(n1, n2) ==
    \E base \in Pieces(n1) : IsBaseNameOf(base, n1) /\ IsBaseNameOf(base, n2)

DigitValue(c) == CHOOSE d \in 0..9 : Digits[d + 1] = c

\* stamp reads YYYYMMDD_HHMMSS and its time of day is the second t.
IsStampOf(stamp, t) ==
    /\ Len(stamp) = 10
    /\ stamp[4] = "_"
    /\ \A k \in 5..10 : stamp[k] \in {Digits[d] : d \in 1..10}
    /\ (10 * DigitValue(stamp[5]) + DigitValue(stamp[6])) * 3600
       + (10 * DigitValue(stamp[7]) + DigitValue(stamp[8])) * 60
       + 10 * DigitValue(stamp[9]) + DigitValue(stamp[10]) = t

IsReportPath(path, reg_name, output_dir, t) ==
    \E base \in Pieces(reg_name) :
        \E stamp \in {SubSeq(path, Len(path) - 11, Len(path) - 2)} :
            /\ IsBaseNameOf(base, reg_name)
            /\ IsStampOf(stamp, t)
            /\ path = DirOf(output_dir) \o <<"/", "compliance_report_">> \o base
                        \o <<"_">> \o stamp \o <<".", "txt">>

SaveNamed ==
    /\ ret.kind = "value"
    /\ DirOf(arg.output_dir) \in dirs
    /\ ret.value \in DOMAIN fs
    /\ IsReportPath(ret.value, arg.reg_name, arg.output_dir, arg.second)

\* C7 (as amended): save succeeds whether or not outputDir already exists,
\* writes compliance_report_{baseName}_{YYYYMMDD_HHMMSS}.txt inside
\* outputDir, baseName being regulationName with directory prefix and
\* extension stripped, and returns that path; reading the artifact back
\* right after the save yields exactly the report text provided the report
\* holds no carriage return.
C7_Store ==
    SaveReturned =>
        /\ SaveNamed
        /\ ~Contains(arg.report, "CR") => load_text(fs[ret.value].bytes) = arg.report

\* C7 witness: a second save into a directory that an earlier save had
\* already used, on a platform whose line separator is CR LF, of a report
\* with a line feed and a two-byte character, for a regulation name with a
\* directory prefix.
C7_Witness ==
    /\ SaveReturned
    /\ saves = 2
    /\ ret.kind = "value"
    /\ linesep = <<"CR", "LF">>
    /\ Contains(arg.report, "LF") /\ Contains(arg.report, "e'")
    /\ Contains(arg.reg_name, "/")
    /\ \E q \in DOMAIN fs : q # ret.value /\ fs[q].by.output_dir = arg.output_dir
    /\ load_text(fs[ret.value].bytes) = arg.report

\* C7 (as stated): ... and reading the artifact back right after the save
\* yields exactly the report text, whatever the report.
C7_Original ==
    SaveReturned =>
        /\ SaveNamed
        /\ load_text(fs[ret.value].bytes) = arg.report

\* C8 (as amended): across any sequence of saves, a later save changes the
\* content of an earlier artifact only when it has the same base name, the
\* same output directory and the same one-second clock reading as the save
\* that wrote the artifact (it then overwrites it); every other save leaves
\* every earlier artifact as it was, and no artifact ever disappears.
C8_Immutable ==
    [][\A q \in DOMAIN fs :
          /\ q \in DOMAIN fs'
          /\ fs'[q].bytes # fs[q].bytes =>
                /\ arg'.fn = "save_report"
                /\ ret'.kind = "value" /\ ret'.value = q
                /\ arg'.second = fs[q].by.second
                /\ DirOf(arg'.output_dir) = DirOf(fs[q].by.output_dir)
                /\ SameBaseName(arg'.reg_name, fs[q].by.reg_name)]_vars

\* C8 witness: two saves have been made one second apart for the same
\* regulation and output directory, and both artifacts are there, the
\* earlier one with the bytes its own save wrote.
C8_Witness ==
    /\ SaveReturned
    /\ saves = 2
    /\ \E q \in DOMAIN fs :
          /\ q # ret.value
          /\ fs[q].by.reg_name = arg.reg_name
          /\ fs[q].by.output_dir = arg.output_dir
          /\ fs[q].by.second < arg.second
          /\ fs[q].bytes # fs[ret.value].bytes

\* C8 (as stated): no later save changes the content of an artifact created
\* by an earlier save.
C8_Original ==
    [][\A q \in DOMAIN fs : q \in DOMAIN fs' /\ fs'[q].bytes = fs[q].bytes]_vars

(***************************************************************************)
(* The orchestrators.  A document on disk is a record [exists, bytes]; a   *)
(* folder listing is a sequence of [name, disk] in os.listdir's order.     *)
(***************************************************************************)
MaxFiles == 3

SopText == <<"s">>

\* str.lower() on the tokens of a file name.
LowerToken(c) ==
    CASE c = "TXT" -> "txt"
      [] c = "_EXTRACTED" -> "_extracted"
      [] OTHER -> c

lower(name) == [k \in 1..Len(name) |-> LowerToken(name[k])]

endswith(name, suffix) ==
    /\ Len(name) >= Len(suffix)
    /\ SubSeq(name, Len(name) - Len(suffix) + 1, Len(name)) = suffix

ExtractedSuffix == <<"_extracted", ".", "txt">>

\* comparison.py line 69: filename.lower().endswith("_extracted.txt")
Eligible(filename) == endswith(lower(filename), ExtractedSuffix)

\* The embedding provider and util.cos_sim: the similarity of each clause to
\* the SOP, one tensor scalar per clause, in clause order.  The values are
\* those of the clauses the documents of the model hold.
SimilarityOf(clause) ==
    CASE clause = <<"a">> -> 400
      [] clause = <<"b">> -> 399
      [] OTHER -> 812

calculate_similarity(clauses) ==
    [k \in 1..Len(clauses) |-> Tensor(SimilarityOf(clauses[k]))]

\* "if not relevant_clauses" / "if relevant_clauses": None and the empty list
\* are both false.
NoRelevantNoneOnly(rc) == rc.none

NoRelevant(rc) == rc.none \/ rc.list = <<>>

\* The for loop of process_regulatory_docs is over when the listing is
\* exhausted.
ScanDoneEarly(i, n) == i > n \/ i > 1

ScanDone(i, n) == i > n

(***************************************************************************)
(* inference.create_prompt                                                 *)
(***************************************************************************)
Format3f(v) ==
    <<Digits[(v \div 1000) + 1], ".", Digits[((v \div 100) % 10) + 1],
      Digits[((v \div 10) % 10) + 1], Digits[(v % 10) + 1]>>

ClauseLine(rc) == <<"Clause (score: ">> \o Format3f(rc[2]) \o <<"): ">> \o rc[1]

RECURSIVE JoinBlankLine(_)
JoinBlankLine(lines) ==
    IF lines = <<>> THEN <<>>
    ELSE IF Len(lines) = 1 THEN Head(lines)
    ELSE Head(lines) \o <<"LF", "LF">> \o JoinBlankLine(Tail(lines))

create_prompt(sop_text, relevant_clauses, reg_name) ==
    <<"### SOP DOCUMENT:", "LF">> \o sop_text
        \o <<"LF", "### RELEVANT REGULATORY CLAUSES FROM ">> \o reg_name
        \o <<":", "LF">>
        \o JoinBlankLine([k \in 1..Len(relevant_clauses) |->
                             ClauseLine(relevant_clauses[k])])
        \o <<"LF", "Please provide a detailed compliance analysis report">>

(***************************************************************************)
(* inference.generate_report_with_claude.  The name `client` is looked up  *)
(* in the globals of module inference when the call is made; inference.py  *)
(* binds no such name, so the lookup raises NameError inside the try block *)
(* and no request leaves.  A host that assigns inference.client first gets *)
(* one request, which returns a text or raises a provider error.           *)
(***************************************************************************)
ErrorReportBlank(description) == <<>>

\* f"Error: {str(e)}"
ErrorReport(description) == <<"Error: ">> \o description

NameErrorText == <<"name 'client' is not defined">>
ProviderErrors == {<<"quota", "SP", "exceeded">>}
LlmTexts == {<<"Compliance", "LF", "report">>}

\* The outcomes of one call: [requests, failed, description, report].
GenerateOutcomes(bound) ==
    IF ~bound
    THEN {[requests |-> 0, failed |-> TRUE, description |-> NameErrorText,
           report |-> ErrorReport(NameErrorText)]}
    ELSE {[requests |-> 1, failed |-> FALSE, description |-> <<>>, report |-> t] :
              t \in LlmTexts}
         \cup {[requests |-> 1, failed |-> TRUE, description |-> d,
                report |-> ErrorReport(d)] : d \in ProviderErrors}

(***************************************************************************)
(* The documents and folders of the model.                                 *)
(***************************************************************************)
Undecodable == [exists |-> TRUE, bytes |-> <<"xFF">>]
Missing == [exists |-> FALSE, bytes |-> <<>>]
DocsOnDisk ==
    { Undecodable,
      [exists |-> TRUE, bytes |-> <<"SP", "LF">>],
      [exists |-> TRUE, bytes |-> <<"b">>],
      [exists |-> TRUE, bytes |-> <<"a", "CR", "LF", "CR", "LF", "b">>] }

FolderNames ==
    { <<"a", "_extracted", ".", "txt">>,
      <<"a", "_extracted", ".", "TXT">>,
      <<"b", "_extracted", ".", "txt">>,
      <<"notes", ".", "txt">> }

SinglePaths ==
    { <<"parsed", "/", "a", "_extracted", ".", "txt">>,
      <<"notes", ".", "txt">> }

\* Listings: no name twice; a file the loop never opens has one content.
Listings ==
    {l \in UNION {[1..n -> [name : FolderNames, disk : DocsOnDisk]] : n \in 0..MaxFiles} :
        /\ \A k, m \in 1..Len(l) : k # m => l[k].name # l[m].name
        /\ \A k \in 1..Len(l) : ~Eligible(l[k].name) => l[k].disk = Undecodable}

Folder == arg.fn = "analyze_all_regulations"
Single == arg.fn = "analyze_specific_regulation"

\* The documents of the run: the listing, or the one file of single mode.
Docs == IF Folder THEN arg.listing
        ELSE <<[name |-> basename(arg.reg_file_path), disk |-> arg.disk]>>

InitFolder ==
    /\ \E l \in Listings : arg = [fn |-> "analyze_all_regulations", listing |-> l]
                           /\ run = RunInit(Len(l))
    /\ pc = "loop"

InitSingle ==
    /\ \E path \in SinglePaths, d \in DocsOnDisk \cup {Missing} :
          arg = [fn |-> "analyze_specific_regulation", reg_file_path |-> path,
                 disk |-> d]
    /\ run = RunInit(1)
    /\ pc = "exists"

Init ==
    /\ InitFolder \/ InitSingle
    /\ ret = NotYet
    /\ fs = << >>
    /\ dirs \in {{}, {DefaultOutputDir}}
    /\ now = 0
    /\ linesep \in LineSeps
    /\ saves = 0
    /\ client \in BOOLEAN

Raise(exc) ==
    /\ ret' = [kind |-> "raised", exc |-> exc]
    /\ pc' = "raised"

Stage(k, name) == [run.stage EXCEPT ![k] = name]

(***************************************************************************)
(* process_specific_reg_file, lines 100-102: a missing file gives None.    *)
(***************************************************************************)
CheckExists ==
    /\ Single /\ pc = "exists"
    /\ IF arg.disk.exists
       THEN pc' = "load" /\ run' = run
       ELSE pc' = "gate"
            /\ run' = [run EXCEPT !.relevant = [none |-> TRUE, list |-> <<>>]]
    /\ UNCHANGED <<arg, ret, fs, dirs, now, linesep, saves, client>>

(***************************************************************************)
(* process_regulatory_docs, lines 68-70: the next name of the listing; a   *)
(* name without the suffix is passed over.                                 *)
(***************************************************************************)
NextFile ==
    /\ Folder /\ pc = "loop"
    /\ ~ScanDone(run.i, Len(arg.listing))
    /\ IF Eligible(arg.listing[run.i].name)
       THEN pc' = "load" /\ run' = run
       ELSE pc' = "loop"
            /\ run' = [run EXCEPT !.i = @ + 1, !.stage = Stage(run.i, "skipped")]
    /\ UNCHANGED <<arg, ret, fs, dirs, now, linesep, saves, client>>

(***************************************************************************)
(* process_single_regulatory_doc, line 54: load_text; an OSError or a      *)
(* UnicodeDecodeError leaves the function, and its callers, uncaught.      *)
(***************************************************************************)
LoadDoc ==
    /\ pc = "load"
    /\ LET d == Docs[run.i].disk
       IN  IF d.exists /\ Utf8Valid(d.bytes)
           THEN /\ run' = [run EXCEPT !.text = load_text(d.bytes),
                                      !.stage = Stage(run.i, "loaded")]
                /\ pc' = "segment"
                /\ ret' = ret
           ELSE /\ run' = [run EXCEPT !.stage = Stage(run.i, "failed")]
                /\ Raise(IF d.exists THEN "UnicodeDecodeError" ELSE "FileNotFoundError")
    /\ UNCHANGED <<arg, fs, dirs, now, linesep, saves, client>>

\* process_single_regulatory_doc, line 55
SegmentDoc ==
    /\ pc = "segment"
    /\ run' = [run EXCEPT !.clauses = extract_clauses(run.text),
                          !.stage = Stage(run.i, "segmented")]
    /\ pc' = "score"
    /\ UNCHANGED <<arg, ret, fs, dirs, now, linesep, saves, client>>

(***************************************************************************)
(* process_single_regulatory_doc, line 56, and what its caller does with   *)
(* the list: process_regulatory_docs appends (filename, list) when the     *)
(* list is not empty and goes on with the next name; in single mode the    *)
(* list goes back to analyze_specific_regulation.                          *)
(***************************************************************************)
ScoreDoc ==
    /\ pc = "score"
    /\ LET list == find_relevant_clauses(run.clauses,
                                         calculate_similarity(run.clauses),
                                         Threshold)
           rc == [none |-> FALSE, list |-> list]
           entry == [doc |-> run.i, name |-> Docs[run.i].name, clauses |-> list]
       IN  IF Folder
           THEN /\ run' = [run EXCEPT
                            !.relevant = rc,
                            !.results = IF NoRelevant(rc) THEN @ ELSE Append(@, entry),
                            !.i = @ + 1,
                            !.stage = Stage(run.i, "scored")]
                /\ pc' = "loop"
           ELSE /\ run' = [run EXCEPT !.relevant = rc,
                                      !.stage = Stage(run.i, "scored")]
                /\ pc' = "gate"
    /\ UNCHANGED <<arg, ret, fs, dirs, now, linesep, saves, client>>

\* model.encode raises (provider unavailable): nothing catches it.
EmbeddingFails ==
    /\ pc = "score"
    /\ run' = [run EXCEPT !.stage = Stage(run.i, "failed")]
    /\ Raise("EmbeddingFailure")
    /\ UNCHANGED <<arg, fs, dirs, now, linesep, saves, client>>

(***************************************************************************)
(* analyze_all_regulations, lines 143-149: the scan is over; no result     *)
(* gives [], else the second loop starts.                                  *)
(***************************************************************************)
EndScan ==
    /\ Folder /\ pc = "loop"
    /\ ScanDone(run.i, Len(arg.listing))
    /\ IF run.results = <<>>
       THEN ret' = [kind |-> "value", value |-> <<>>] /\ pc' = "returned"
       ELSE ret' = ret /\ pc' = "compose"
    /\ UNCHANGED <<arg, fs, dirs, now, linesep, saves, client, run>>

(***************************************************************************)
(* analyze_specific_regulation, lines 108-112: None when there is nothing  *)
(* relevant.                                                               *)
(***************************************************************************)
Gate ==
    /\ Single /\ pc = "gate"
    /\ IF NoRelevant(run.relevant)
       THEN /\ ret' = [kind |-> "none"]
            /\ pc' = "returned"
            /\ run' = run
       ELSE /\ ret' = ret
            /\ pc' = "compose"
            /\ run' = [run EXCEPT !.results =
                          <<[doc |-> 1, name |-> Docs[1].name,
                             clauses |-> run.relevant.list]>>]
    /\ UNCHANGED <<arg, fs, dirs, now, linesep, saves, client>>

\* create_prompt for the j-th result (lines 115-118, 152-154)
Compose ==
    /\ pc = "compose"
    /\ LET r == run.results[run.j]
       IN  run' = [run EXCEPT
                     !.prompt = create_prompt(SopText, r.clauses, r.name),
                     !.composeCalls = @ + 1,
                     !.stage = Stage(r.doc, "composed")]
    /\ pc' = "generate"
    /\ UNCHANGED <<arg, ret, fs, dirs, now, linesep, saves, client>>

\* generate_report_with_claude(prompt) (lines 120-122, 156-158)
Generate ==
    /\ pc = "generate"
    /\ \E o \in GenerateOutcomes(client) :
          run' = [run EXCEPT
                    !.report = o.report,
                    !.gen = Append(@, [failed |-> o.failed,
                                       description |-> o.description]),
                    !.genCalls = @ + 1,
                    !.llmRequests = @ + o.requests,
                    !.stage = Stage(run.results[run.j].doc, "generated")]
    /\ pc' = "store"
    /\ UNCHANGED <<arg, ret, fs, dirs, now, linesep, saves, client>>

(***************************************************************************)
(* save_report(report, name) and what follows it: single mode returns the  *)
(* path (lines 124-128); folder mode appends it and goes on with the next  *)
(* result, returning the paths after the last one (lines 160-165).         *)
(***************************************************************************)
Store ==
    /\ pc = "store"
    /\ LET r == run.results[run.j]
           s == save_report(run.report, r.name, DefaultOutputDir, now, dirs, fs,
                            linesep)
           paths == Append(run.paths, s.path)
       IN  /\ fs' = s.fs
           /\ dirs' = s.dirs
           /\ run' = [run EXCEPT !.paths = paths, !.j = @ + 1,
                                 !.stage = Stage(r.doc, "stored")]
           /\ IF Single
              THEN ret' = [kind |-> "value", value |-> s.path] /\ pc' = "returned"
              ELSE IF run.j = Len(run.results)
              THEN ret' = [kind |-> "value", value |-> paths] /\ pc' = "returned"
              ELSE ret' = ret /\ pc' = "compose"
    /\ saves' = saves + 1
    /\ UNCHANGED <<arg, now, linesep, client>>

Next ==
    \/ CheckExists
    \/ NextFile
    \/ LoadDoc
    \/ SegmentDoc
    \/ ScoreDoc
    \/ EmbeddingFails
    \/ EndScan
    \/ Gate
    \/ Compose
    \/ Generate
    \/ Store
    \/ Tick

Spec == Init /\ [][Next]_vars

(***************************************************************************)
(* What the properties of the orchestrators speak of.                      *)
(***************************************************************************)
Done == pc \in {"returned", "raised"}

\* The suffix test as the specification words it: the name ends with
\* _extracted.txt.
HasSuffix(filename) == endswith(filename, ExtractedSuffix)

\* A document has a relevant clause: it can be read and one of its clauses
\* scores at least the threshold.
HasRelevant(disk) ==
    /\ disk.exists
    /\ Utf8Valid(disk.bytes)
    /\ PassingIdx(calculate_similarity(ExpectedClauses(load_text(disk.bytes))),
                  Threshold) # {}

AfterSegment == {"segmented", "scored", "composed", "generated", "stored"}
AfterScore == {"scored", "composed", "generated", "stored"}
AfterCompose == {"composed", "generated", "stored"}

\* C1: in folder mode a failure while processing one document (unreadable
\* text file, embedding failure, LLM failure) does not abort the run: the
\* run returns, and every other eligible file has been processed.
C1_FailureIsolation ==
    (Folder /\ Done) =>
        /\ pc = "returned"
        /\ \A k \in 1..Len(arg.listing) :
              HasSuffix(arg.listing[k].name) => run.stage[k] # "none"

WithRelevantClause(entry) == HasSuffix(entry.name) /\ HasRelevant(entry.disk)

\* C2: folder mode returns exactly one result per file whose name ends with
\* _extracted.txt and that has at least one relevant clause, in the order of
\* the listing; other files contribute no result.
C2_OneResultPerRelevantFile ==
    (Folder /\ Done) =>
        LET expected == SelectSeq(arg.listing, WithRelevantClause)
        IN  /\ ret.kind = "value"
            /\ Len(ret.value) = Len(expected)
            /\ \A k \in 1..Len(expected) :
                  \E t \in 0..now :
                      IsReportPath(ret.value[k], expected[k].name,
                                   DefaultOutputDir, t)

C6_OneCallPerPrompt ==
    /\ run.llmRequests = run.genCalls
    /\ pc = "raised" => run.stage[run.i] = "failed"

\* C9 (as stated): in folder mode no document is segmented or scored while
\* an earlier document that has relevant clauses has not yet had its report
\* stored.
C9_Original ==
    Folder =>
        \A k, m \in 1..Len(arg.listing) :
            (k < m /\ run.stage[m] \in AfterSegment
                   /\ Eligible(arg.listing[k].name)
                   /\ HasRelevant(arg.listing[k].disk))
                => run.stage[k] = "stored"

\* C9 (as amended): folder mode runs in two passes.  First the eligible
\* documents are segmented and scored one after another in the order of the
\* listing, each scored before the next is read; only when every eligible
\* document has been scored is the first report composed.  Then the
\* documents with relevant clauses are composed, generated and stored one
\* after another in the same order, each stored before the next is composed.
C9_TwoPasses ==
    Folder =>
        \A k, m \in 1..Len(arg.listing) :
            /\ (k < m /\ run.stage[m] # "none")
                  => run.stage[k] \in AfterScore \cup {"skipped"}
            /\ (run.stage[k] \in AfterCompose /\ Eligible(arg.listing[m].name))
                  => run.stage[m] \in AfterScore
            /\ (k < m /\ run.stage[m] \in AfterCompose
                      /\ HasRelevant(arg.listing[k].disk)
                      /\ Eligible(arg.listing[k].name))
                  => run.stage[k] = "stored"

\* C9 witness: the report of the first of two documents with relevant
\* clauses is stored and the report of the second, scored long before, has
\* just been generated.
C9_Witness ==
    /\ Folder /\ pc = "store" /\ run.j = 2
    /\ run.stage[run.results[1].doc] = "stored"
    /\ run.stage[run.results[2].doc] = "generated"

\* C10: when the LLM call fails for a document with relevant clauses, the
\* Store step still runs: the artifact just written holds the error string
\* "Error: <description>", and the run returns its path exactly as it returns
\* the path of a successful report.
C10_ErrorAsReport ==
    (Folder \/ Single) =>
        /\ Len(run.paths) = run.j - 1
        /\ \A n \in 1..Len(run.paths) :
              /\ run.paths[n] \in DOMAIN fs
              /\ \E t \in 0..now :
                    IsReportPath(run.paths[n], run.results[n].name,
                                 DefaultOutputDir, t)
              /\ (run.gen[n].failed /\ n = Len(run.paths)) =>
                    load_text(fs[run.paths[n]].bytes)
                        = <<"Error: ">> \o run.gen[n].description
        /\ (pc = "returned" /\ run.results # <<>>) =>
              /\ Len(run.paths) = Len(run.results)
              /\ ret.kind = "value"
              /\ ret.value = IF Single THEN run.paths[1] ELSE run.paths

\* C10 witness: a folder run has returned two distinct paths, the first of a
\* report whose generation failed, the second of one that was generated.
C10_Witness ==
    /\ Folder /\ pc = "returned"
    /\ ret.kind = "value" /\ Len(ret.value) = 2
    /\ ret.value[1] # ret.value[2]
    /\ run.gen[1].failed /\ ~run.gen[2].failed

=============================================================================
